---- MODULE Spec2Model ----
(***************************************************************************)
(* Model of food.py: the AWS Lambda handler that geocodes a free-text      *)
(* location (Nominatim), queries food businesses around it (Overpass),     *)
(* formats each returned element and sorts the result by name.             *)
(*                                                                         *)
(* Python values are modelled as records tagged with their type, so that   *)
(* dict.get, truthiness, int(), str.lower() and list.sort() are computed   *)
(* the way the interpreter computes them.  Strings that are compared or    *)
(* converted are sequences of code points (names, tag values) or of        *)
(* one-character strings (the radius text).                                *)
(***************************************************************************)
EXTENDS Integers, Sequences, FiniteSets

VARIABLES
    pc,           \* position of the invocation inside lambda_handler
    location,     \* local `location`
    body,         \* local `body`: the kind of value the handler read the body as
    radius,       \* local `radius` (raw value, then the validated integer)
    radiusIn,     \* the raw radius the invocation supplied (history of `radius`)
    coords,       \* local `coords`: <<>> is None, <<c>> a geocode result
    businesses,   \* local `businesses`: what get_food_businesses returned
    geoResponse,  \* the geocoder's answer to the GET, once received
    poiResponse,  \* the Overpass answer to the POST, once received
    geoCalls,     \* number of GET requests issued to the geocoder
    poiCalls,     \* number of POST requests issued to Overpass
    poiRadius,    \* the radius interpolated into the issued Overpass query
    fault,        \* the exception that reached lambda_handler's except clause
    response,     \* the value lambda_handler returns
    npc,          \* normaliser harness: position
    feature,      \* normaliser harness: the raw element given to format_business
    business      \* normaliser harness: what format_business returned

vars == << pc, location, body, radius, radiusIn, coords, businesses, geoResponse,
           poiResponse, geoCalls, poiCalls, poiRadius, fault, response,
           npc, feature, business >>

pipelineVars == << pc, location, body, radius, radiusIn, coords, businesses,
                   geoResponse, poiResponse, geoCalls, poiCalls, poiRadius,
                   fault, response >>

normaliserVars == << npc, feature, business >>

(***************************************************************************)
(* Bounds and program constants                                            *)
(***************************************************************************)
MaxFeatures == 3

DefaultRadius == 1000
MinRadius == 100
MaxRadius == 5000
HTTP_OK == 200

(***************************************************************************)
(* Strings as sequences of code points                                     *)
(***************************************************************************)
Str_Unnamed == << 85, 110, 110, 97, 109, 101, 100 >>   \* "Unnamed"
Str_NA      == << 78, 47, 65 >>                        \* "N/A"
Str_Empty   == << >>                                   \* ""
Str_Cafe    == << 67, 97, 102, 101 >>                  \* "Cafe"
Str_cafe    == << 99, 97, 102, 101 >>                  \* "cafe"
Str_bakery  == << 98, 97, 107, 101, 114, 121 >>        \* "bakery"
Str_pub     == << 112, 117, 98 >>                      \* "pub"
Str_deli    == << 100, 101, 108, 105 >>                \* "deli"
Str_thai    == << 116, 104, 97, 105 >>                 \* "thai"

\* str.lower() on ASCII text: 'A'..'Z' map to 'a'..'z', all else is kept.
Lower(s) == [i \in DOMAIN s |-> IF s[i] >= 65 /\ s[i] <= 90 THEN s[i] + 32 ELSE s[i]]

\* Python's str < str: lexicographic by code point, a proper prefix is smaller.
StrLess(a, b) ==
    \E i \in 1..(Len(b)) :
        /\ \A j \in 1..(i - 1) : j <= Len(a) /\ a[j] = b[j]
        /\ \/ i = Len(a) + 1
           \/ i <= Len(a) /\ a[i] < b[i]

(***************************************************************************)
(* Optional values: << >> is an absent key / None, << v >> is v            *)
(***************************************************************************)
Opt(S) == { << >> } \cup { << v >> : v \in S }

\* dict.get(key, default) on a key held as an optional
GetOr(o, default) == IF o = << >> THEN default ELSE o[1]

(***************************************************************************)
(* Request inputs: the event handed to lambda_handler                      *)
(***************************************************************************)
\* A value found under 'location': the key is absent, None, or a string.
LocAbsent == [k |-> "absent", s |-> ""]
LocNone   == [k |-> "none", s |-> ""]
LocStr(s) == [k |-> "str", s |-> s]
LocInputs == { LocAbsent, LocNone, LocStr(""), LocStr("Cork City") }

\* A value found under 'radius'.  k is the Python type; n carries an int (or a
\* bool as 0/1, or a float in tenths); s carries the characters of a string.
RadAbsent   == [k |-> "absent", n |-> 0, s |-> << >>]
RadNone     == [k |-> "none", n |-> 0, s |-> << >>]
RadInt(n)   == [k |-> "int", n |-> n, s |-> << >>]
RadBool(b)  == [k |-> "bool", n |-> IF b THEN 1 ELSE 0, s |-> << >>]
RadFloat(t) == [k |-> "float", n |-> t, s |-> << >>]     \* t tenths: 2505 is 250.5
RadInf      == [k |-> "inf", n |-> 0, s |-> << >>]       \* float('inf'), JSON 1e999
RadNaN      == [k |-> "nan", n |-> 0, s |-> << >>]       \* float('nan')
RadStr(s)   == [k |-> "str", n |-> 0, s |-> s]

RadInputs ==
    { RadAbsent, RadNone, RadBool(TRUE), RadInf, RadNaN,
      RadInt(99), RadInt(100), RadInt(5000), RadInt(5001),
      RadFloat(2505), RadFloat(50009),
      RadStr(<< "5", "0", "0" >>), RadStr(<< " ", "5", "0" >>),
      RadStr(<< "a", "b", "c" >>), RadStr(<< "2", "5", "0", ".", "5" >>) }

\* event['queryStringParameters']: key absent, None, or a dict.
QueryStringInputs ==
    { [t |-> "absent", location |-> LocAbsent, radius |-> RadAbsent],
      [t |-> "null", location |-> LocAbsent, radius |-> RadAbsent] }
    \cup [t : {"dict"}, location : LocInputs, radius : RadInputs]

\* event['body'].  "absent": no 'body' key, so the event itself is read
\* (location and radius are then the event's own top-level keys); "null":
\* None; "badjson": a string that is not JSON; "jsonlist": a string holding a
\* JSON array; "jsonstr": a string holding a JSON object; "dict": a dict.
BodyInputs ==
    [t : {"null", "badjson", "jsonlist"}, location : {LocAbsent}, radius : {RadAbsent}]
    \cup [t : {"absent", "jsonstr", "dict"}, location : LocInputs, radius : RadInputs]

Events == [queryStringParameters : QueryStringInputs, body : BodyInputs]

\* Python truthiness of a value found under 'location' (`not location`).
NotLocation(v) == v.k = "none" \/ (v.k = "str" /\ v.s = "")

\* dict.get('location'): None when the key is absent.
GetLocation(v) == IF v.k = "absent" THEN LocNone ELSE v

\* dict.get('radius', default)
GetRadius(v, default) == IF v.k = "absent" THEN default ELSE v

(***************************************************************************)
(* int(radius)                                                             *)
(***************************************************************************)
Digits == << "0", "1", "2", "3", "4", "5", "6", "7", "8", "9" >>
IsDigit(c) == \E i \in 1..10 : Digits[i] = c
DigitVal(c) == (CHOOSE i \in 1..10 : Digits[i] = c) - 1

RECURSIVE Strip(_)
Strip(s) ==
    IF s = << >> THEN s
    ELSE IF Head(s) = " " THEN Strip(Tail(s))
    ELSE IF s[Len(s)] = " " THEN Strip(SubSeq(s, 1, Len(s) - 1))
    ELSE s

RECURSIVE DigitsValue(_, _)
DigitsValue(s, acc) ==
    IF s = << >> THEN acc
    ELSE IF Head(s) = "_" THEN DigitsValue(Tail(s), acc)
    ELSE DigitsValue(Tail(s), 10 * acc + DigitVal(Head(s)))

\* the digit part of an integer literal: digits, single underscores between them
IsDigitString(s) ==
    /\ s # << >>
    /\ \A i \in 1..Len(s) :
          \/ IsDigit(s[i])
          \/ /\ s[i] = "_"
             /\ i > 1 /\ i < Len(s)
             /\ IsDigit(s[i - 1]) /\ IsDigit(s[i + 1])

Ok(n)     == [exc |-> "", n |-> n]
Raise(e)  == [exc |-> e, n |-> 0]

\* int(str): surrounding whitespace stripped, optional sign, decimal digits
IntOfStr(s) ==
    LET t == Strip(s)
        signed == t # << >> /\ Head(t) \in {"+", "-"}
        d == IF signed THEN Tail(t) ELSE t
    IN  IF ~IsDigitString(d) THEN Raise("ValueError")
        ELSE IF signed /\ Head(t) = "-" THEN Ok(0 - DigitsValue(d, 0))
        ELSE Ok(DigitsValue(d, 0))

\* int(float): truncation toward zero (the float is held in tenths)
TruncTenths(t) == IF t >= 0 THEN t \div 10 ELSE 0 - ((0 - t) \div 10)

PyInt(v) ==
    CASE v.k \in {"int", "bool"} -> Ok(v.n)
      [] v.k = "float"           -> Ok(TruncTenths(v.n))
      [] v.k = "inf"             -> Raise("OverflowError")
      [] v.k = "nan"             -> Raise("ValueError")
      [] v.k = "str"             -> IntOfStr(v.s)
      [] OTHER                   -> Raise("TypeError")

\* lines 145-151: the validated radius, or the exception the inner `except
\* (ValueError, TypeError)` does not catch
validate_radius(v) ==
    LET r == PyInt(v)
    IN  IF r.exc \in {"ValueError", "TypeError"} THEN Ok(DefaultRadius)
        ELSE IF r.exc # "" THEN r
        ELSE IF r.n < MinRadius \/ r.n > MaxRadius THEN Ok(DefaultRadius)
        ELSE r

\* lines 118-131: the location and raw radius the handler settles on, or the
\* exception raised while reading the body
parse_input(event) ==
    LET qs == event.queryStringParameters
        query_params == IF qs.t = "dict" THEN qs
                        ELSE [t |-> "dict", location |-> LocAbsent, radius |-> RadAbsent]
        loc0 == GetLocation(query_params.location)
        rad0 == GetRadius(query_params.radius, RadInt(DefaultRadius))
        b == event.body
    IN  IF ~NotLocation(loc0)
        THEN [exc |-> "", location |-> loc0, radius |-> rad0, body |-> "unread"]
        ELSE CASE b.t = "badjson" ->      \* json.loads raises
                    [exc |-> "JSONDecodeError", location |-> loc0, radius |-> rad0,
                     body |-> "undecodable"]
               [] b.t = "null" ->         \* None has no .get
                    [exc |-> "AttributeError", location |-> loc0, radius |-> rad0,
                     body |-> "none"]
               [] b.t = "jsonlist" ->     \* list has no .get
                    [exc |-> "AttributeError", location |-> loc0, radius |-> rad0,
                     body |-> "list"]
               [] OTHER ->
                    [exc |-> "", location |-> GetLocation(b.location),
                     radius |-> GetRadius(b.radius, rad0), body |-> "dict"]

(***************************************************************************)
(* Raw Overpass elements and format_business                               *)
(***************************************************************************)
\* business['tags']: key absent, null, or a dict of optional string tags.
NoTagValues ==
    [name |-> << >>, amenity |-> << >>, shop |-> << >>, cuisine |-> << >>,
     street |-> << >>, housenumber |-> << >>, city |-> << >>, phone |-> << >>,
     website |-> << >>, opening_hours |-> << >>]

Tags(t, values) == [t |-> t, v |-> values]

\* One entry of 'elements'.  t = "int" is a JSON number where an object was
\* expected; type is the element kind; lat/lon are the direct coordinate of a
\* node; center is the centroid Overpass attaches to a way under `out center`.
Element(type, lat, lon, center, tags) ==
    [t |-> "dict", type |-> type, lat |-> lat, lon |-> lon, center |-> center,
     tags |-> tags]

NonDictElement ==
    [t |-> "int", type |-> "", lat |-> << >>, lon |-> << >>, center |-> << >>,
     tags |-> Tags("absent", NoTagValues)]

Centroid == [lat |-> 5, lon |-> 6]

TagValueSets ==
    [name : Opt({Str_Empty, Str_Cafe, Str_bakery}),
     amenity : Opt({Str_pub}), shop : Opt({Str_deli}), cuisine : Opt({Str_thai}),
     street : Opt({Str_Cafe}), housenumber : Opt({Str_pub}),
     city : Opt({Str_bakery}), phone : Opt({Str_deli}),
     website : Opt({Str_thai}), opening_hours : Opt({Str_cafe})]

RawTags ==
    { Tags("absent", NoTagValues), Tags("null", NoTagValues) }
    \cup { Tags("dict", v) : v \in TagValueSets }

\* the elements format_business is exercised on: nodes, which carry their
\* coordinate directly, and ways, which carry at most a centroid
RawFeatures ==
    { NonDictElement }
    \cup { Element("node", ll, ll, << >>, tg) : ll \in Opt({1}), tg \in RawTags }
    \cup { Element("way", << >>, << >>, c, tg) : c \in Opt({Centroid}), tg \in RawTags }

FormatOk(b)  == [exc |-> "", v |-> b]
NoBusiness ==
    [name |-> Str_Empty, type |-> Str_Empty, cuisine |-> Str_Empty,
     address |-> Str_Empty, housenumber |-> Str_Empty, city |-> Str_Empty,
     phone |-> Str_Empty, website |-> Str_Empty, opening_hours |-> Str_Empty,
     lat |-> << >>, lon |-> << >>]
FormatRaise(e) == [exc |-> e, v |-> NoBusiness]

\* lines 74-90
format_business(b) ==
    IF b.t # "dict" THEN FormatRaise("AttributeError")      \* int has no .get
    ELSE IF b.tags.t = "null" THEN FormatRaise("AttributeError")  \* None.get
    ELSE
      LET tags == IF b.tags.t = "absent" THEN NoTagValues ELSE b.tags.v
      IN  FormatOk(
            [name          |-> GetOr(tags.name, Str_Unnamed),
             type          |-> GetOr(tags.amenity, GetOr(tags.shop, Str_NA)),
             cuisine       |-> GetOr(tags.cuisine, Str_NA),
             address       |-> GetOr(tags.street, Str_NA),
             housenumber   |-> GetOr(tags.housenumber, Str_NA),
             city          |-> GetOr(tags.city, Str_NA),
             phone         |-> GetOr(tags.phone, Str_NA),
             website       |-> GetOr(tags.website, Str_NA),
             opening_hours |-> GetOr(tags.opening_hours, Str_NA),
             lat           |-> b.lat,
             lon           |-> b.lon])

(***************************************************************************)
(* formatted.sort(key=lambda x: x['name'].lower())                         *)
(***************************************************************************)
\* the key without .lower(): a case-sensitive sort
SortKeyCaseSensitive(x) == x.name

\* line 173: the sort key
SortKey(x) == Lower(x.name)

\* list.sort is stable: an element goes after every element already placed
\* whose key is not greater than its own.
RECURSIVE InsertByKey(_, _)
InsertByKey(x, s) ==
    IF s = << >> THEN << x >>
    ELSE IF StrLess(SortKey(x), SortKey(Head(s))) THEN << x >> \o s
    ELSE << Head(s) >> \o InsertByKey(x, Tail(s))

RECURSIVE SortByName(_)
SortByName(s) ==
    IF s = << >> THEN << >>
    ELSE InsertByKey(s[Len(s)], SortByName(SubSeq(s, 1, Len(s) - 1)))

\* line 172: [format_business(b) for b in businesses]; the first exception
\* raised by an element, or by iterating None, ends the comprehension
PyList(items) == [t |-> "list", items |-> items]
PyNone        == [t |-> "none", items |-> << >>]

format_all(bs) ==
    IF bs.t # "list" THEN [exc |-> "TypeError", v |-> << >>]
    ELSE
      LET out == [i \in DOMAIN bs.items |-> format_business(bs.items[i])]
          bad == { i \in DOMAIN out : out[i].exc # "" }
      IN  IF bad # {}
          THEN [exc |-> out[CHOOSE i \in bad : \A j \in bad : i <= j].exc, v |-> << >>]
          ELSE [exc |-> "", v |-> [i \in DOMAIN out |-> out[i].v]]

(***************************************************************************)
(* The geocoder (Nominatim) and geocode_location                           *)
(***************************************************************************)
\* a 'lat'/'lon' string of a candidate: num says whether float() accepts it
NumStr(num, v) == [num |-> num, v |-> v]

Candidate(lat, lon, display_name) ==
    [lat |-> lat, lon |-> lon, display_name |-> display_name]

GoodCandidate  == Candidate(<< NumStr(TRUE, 51) >>, << NumStr(TRUE, -8) >>, << "Cork, Ireland" >>)
BadLatCandidate == Candidate(<< NumStr(FALSE, 0) >>, << NumStr(TRUE, -8) >>, << "Cork, Ireland" >>)
NoNameCandidate == Candidate(<< NumStr(TRUE, 51) >>, << NumStr(TRUE, -8) >>, << >>)

\* the decoded body of the geocoder's answer: not JSON, a JSON object (an
\* error document), or a JSON array of candidates
GeoBodies ==
    { [t |-> "garbage", candidates |-> << >>], [t |-> "dict", candidates |-> << >>] }
    \cup { [t |-> "list", candidates |-> c] :
             c \in { << >>, << GoodCandidate >>,
                     << BadLatCandidate >>, << NoNameCandidate >> } }

NoGeoResponse == [net |-> "none", status |-> 0, body |-> [t |-> "none", candidates |-> << >>]]

\* what http.request('GET', ...) does: raises (net = "fail") or returns a
\* response with a status and a body
GeoResponses ==
    { [net |-> "fail", status |-> 0, body |-> [t |-> "none", candidates |-> << >>]] }
    \cup [net : {"ok"}, status : {HTTP_OK, 503}, body : GeoBodies]

\* lines 18-37: None (<< >>) or the coordinates of the first candidate
geocode_location(r) ==
    IF r.net = "fail" THEN << >>                     \* except Exception
    ELSE IF r.body.t = "garbage" THEN << >>          \* json.loads raises
    ELSE IF r.body.t = "dict" THEN << >>             \* {} is falsy, data[0] KeyError
    ELSE IF r.body.candidates = << >> THEN << >>     \* if not data
    ELSE LET c == r.body.candidates[1]
         IN  IF c.lat = << >> \/ c.lon = << >> \/ c.display_name = << >>
             THEN << >>                              \* KeyError
             ELSE IF ~c.lat[1].num \/ ~c.lon[1].num
             THEN << >>                              \* float() ValueError
             ELSE << [lat |-> c.lat[1].v, lon |-> c.lon[1].v,
                      display_name |-> c.display_name[1]] >>

(***************************************************************************)
(* The POI service (Overpass) and get_food_businesses                      *)
(***************************************************************************)
NodeNamed(name, lat) ==
    Element("node", << lat >>, << lat >>, << >>,
            Tags("dict", [NoTagValues EXCEPT !.name = name]))

\* the elements Overpass answers are drawn from
PoiFeatures ==
    { NodeNamed(<< Str_Cafe >>, 1), NodeNamed(<< Str_cafe >>, 2),
      NodeNamed(<< Str_bakery >>, 1),
      NodeNamed(<< Str_Empty >>, 1), NodeNamed(<< >>, 1),
      Element("node", << 1 >>, << 1 >>, << >>, Tags("null", NoTagValues)) }

RECURSIVE SeqsUpTo(_, _)
SeqsUpTo(S, n) ==
    IF n = 0 THEN { << >> }
    ELSE LET shorter == SeqsUpTo(S, n - 1)
         IN  shorter \cup { Append(q, x) : q \in shorter, x \in S }

\* the decoded body of the Overpass answer: not JSON, a JSON array, or a JSON
\* object whose 'elements' is absent, null or a list
PoiBodies ==
    { [t |-> "garbage", elements |-> PyNone], [t |-> "jsonlist", elements |-> PyNone],
      [t |-> "dict", elements |-> [t |-> "absent", items |-> << >>]],
      [t |-> "dict", elements |-> PyNone] }
    \cup { [t |-> "dict", elements |-> PyList(q)] : q \in SeqsUpTo(PoiFeatures, MaxFeatures) }

NoPoiResponse ==
    [net |-> "none", status |-> 0, ctype |-> "", body |-> [t |-> "none", elements |-> PyNone]]

PoiResponses ==
    { [net |-> "fail", status |-> 0, ctype |-> "", body |-> [t |-> "none", elements |-> PyNone]] }
    \cup [net : {"ok"}, status : {HTTP_OK, 504}, ctype : {"application/json", "text/html"},
          body : PoiBodies]

\* lines 54-72: the list (or None) the handler gets back
get_food_businesses(r) ==
    IF r.net = "fail" THEN PyList(<< >>)                 \* except Exception
    ELSE IF r.status # HTTP_OK THEN PyList(<< >>)        \* line 63
    ELSE IF r.body.t = "garbage" THEN PyList(<< >>)      \* json.loads raises
    ELSE IF r.body.t = "jsonlist" THEN PyList(<< >>)     \* list has no .get
    ELSE IF r.body.elements.t = "absent" THEN PyList(<< >>)
    ELSE r.body.elements                                 \* data.get('elements', [])

(***************************************************************************)
(* lambda_handler                                                          *)
(***************************************************************************)
Pending == [statusCode |-> 0, body |-> [pending |-> TRUE]]

\* lines 134-143
BadRequest ==
    [statusCode |-> 400, body |-> [error |-> "Missing required parameter: location"]]

\* lines 157-166
NotFound(loc) ==
    [statusCode |-> 404, body |-> [error |-> "Location not found", query |-> loc.s]]

\* lines 198-208
InternalError(exc) ==
    [statusCode |-> 500, body |-> [error |-> "Internal server error", message |-> exc]]

\* lines 175-194
Success(loc, c, r, formatted) ==
    [statusCode |-> HTTP_OK,
     body |-> [location |-> [query |-> loc.s, display_name |-> c.display_name,
                             coordinates |-> [lat |-> c.lat, lon |-> c.lon],
                             radius_meters |-> r],
               businesses |-> PyList(formatted),
               count |-> Len(formatted)]]

NoFault == [stage |-> "", exc |-> ""]

\* an except clause that names ValueError only
CatchesValueErrorOnly(exc) == exc \in {"ValueError", "JSONDecodeError"}

\* line 196: `except Exception` catches every exception class raised here
Catches(exc) ==
    exc \in {"JSONDecodeError", "AttributeError", "TypeError", "ValueError",
             "OverflowError", "KeyError"}

\* an exception raised inside the handler's try block at `stage`
Raised(stage, exc) ==
    /\ fault' = [stage |-> stage, exc |-> exc]
    /\ IF Catches(exc)
       THEN pc' = "Done" /\ response' = InternalError(exc)
       ELSE pc' = "Crashed" /\ response' = response

\* `if location is None`: the empty string passes
MissingLocationNoneOnly(loc) == loc.k = "none"

\* line 133: `if not location`
MissingLocation(loc) == NotLocation(loc)

\* the check on coords left out
NoCoordsSkipped(c) == FALSE

\* line 156: `if not coords`
NoCoords(c) == c = << >>

Init ==
    /\ pc = "Start"
    /\ location = LocNone
    /\ body = "unread"
    /\ radius = RadAbsent
    /\ radiusIn = RadAbsent
    /\ coords = << >>
    /\ businesses = PyNone
    /\ geoResponse = NoGeoResponse
    /\ poiResponse = NoPoiResponse
    /\ geoCalls = 0
    /\ poiCalls = 0
    /\ poiRadius = 0
    /\ fault = NoFault
    /\ response = Pending
    /\ npc = "idle"
    /\ feature = NonDictElement
    /\ business = FormatRaise("")

\* lines 116-131: read location and radius from the query string, then the body
ParseInput ==
    /\ pc = "Start"
    /\ \E event \in Events :
         LET p == parse_input(event)
         IN  /\ location' = p.location
             /\ body' = p.body
             /\ radius' = p.radius
             /\ radiusIn' = p.radius
             /\ IF p.exc # ""
                THEN Raised("parse", p.exc)
                ELSE pc' = "ValidateLocation" /\ UNCHANGED << fault, response >>
    /\ UNCHANGED << coords, businesses, geoResponse, poiResponse, geoCalls,
                    poiCalls, poiRadius, normaliserVars >>

\* lines 133-143
ValidateLocation ==
    /\ pc = "ValidateLocation"
    /\ IF MissingLocation(location)
       THEN pc' = "Done" /\ response' = BadRequest
       ELSE pc' = "ValidateRadius" /\ response' = response
    /\ UNCHANGED << location, radius, radiusIn, coords, businesses, geoResponse,
                    poiResponse, geoCalls, poiCalls, poiRadius, fault,
                    body, normaliserVars >>

\* lines 145-151
ValidateRadius ==
    /\ pc = "ValidateRadius"
    /\ LET r == validate_radius(radius)
       IN  IF r.exc # ""
           THEN Raised("radius", r.exc) /\ radius' = radius
           ELSE /\ radius' = RadInt(r.n)
                /\ pc' = "Geocode"
                /\ UNCHANGED << fault, response >>
    /\ UNCHANGED << location, radiusIn, coords, businesses, geoResponse,
                    poiResponse, geoCalls, poiCalls, poiRadius, body, normaliserVars >>

\* lines 154, 16-23: geocode_location sends its single GET
GeocodeRequest ==
    /\ pc = "Geocode"
    /\ geoCalls' = geoCalls + 1
    /\ pc' = "Geocoding"
    /\ UNCHANGED << location, radius, radiusIn, coords, businesses, geoResponse,
                    poiResponse, poiCalls, poiRadius, fault, response,
                    body, normaliserVars >>

\* lines 25-37, 156-166: the answer arrives; no coordinates ends in 404
GeocodeRespond ==
    /\ pc = "Geocoding"
    /\ \E r \in GeoResponses :
         /\ geoResponse' = r
         /\ coords' = geocode_location(r)
         /\ IF NoCoords(coords')
            THEN pc' = "Done" /\ response' = NotFound(location)
            ELSE pc' = "Query" /\ response' = response
    /\ UNCHANGED << location, radius, radiusIn, businesses, poiResponse, geoCalls,
                    poiCalls, poiRadius, fault, body, normaliserVars >>

\* lines 169, 39-60: get_food_businesses builds the query and sends its POST
\* (coords['lat'] on None raises TypeError before anything is sent)
PoiRequest ==
    /\ pc = "Query"
    /\ IF coords = << >>
       THEN Raised("query", "TypeError") /\ UNCHANGED << poiCalls, poiRadius >>
       ELSE /\ poiCalls' = poiCalls + 1
            /\ poiRadius' = radius.n
            /\ pc' = "Querying"
            /\ UNCHANGED << fault, response >>
    /\ UNCHANGED << location, radius, radiusIn, coords, businesses, geoResponse,
                    poiResponse, geoCalls, body, normaliserVars >>

\* lines 62-72: the answer arrives and get_food_businesses returns
PoiRespond ==
    /\ pc = "Querying"
    /\ \E r \in PoiResponses :
         /\ poiResponse' = r
         /\ businesses' = get_food_businesses(r)
    /\ pc' = "Format"
    /\ UNCHANGED << location, radius, radiusIn, coords, geoResponse, geoCalls,
                    poiCalls, poiRadius, fault, response, body, normaliserVars >>

\* lines 171-194: format every element, sort by name, return 200
FormatAndSort ==
    /\ pc = "Format"
    /\ LET f == format_all(businesses)
       IN  IF f.exc # ""
           THEN Raised("query", f.exc)
           ELSE /\ pc' = "Done"
                /\ response' = Success(location, coords[1], radius.n, SortByName(f.v))
                /\ fault' = fault
    /\ UNCHANGED << location, radius, radiusIn, coords, businesses, geoResponse,
                    poiResponse, geoCalls, poiCalls, poiRadius, body, normaliserVars >>

Next ==
    \/ ParseInput
    \/ ValidateLocation
    \/ ValidateRadius
    \/ GeocodeRequest
    \/ GeocodeRespond
    \/ PoiRequest
    \/ PoiRespond
    \/ FormatAndSort

Spec == Init /\ [][Next]_vars

(***************************************************************************)
(* format_business on its own: every raw element, one application          *)
(***************************************************************************)
InitNormalise ==
    /\ pc = "Idle"
    /\ location = LocNone
    /\ body = "unread"
    /\ radius = RadAbsent
    /\ radiusIn = RadAbsent
    /\ coords = << >>
    /\ businesses = PyNone
    /\ geoResponse = NoGeoResponse
    /\ poiResponse = NoPoiResponse
    /\ geoCalls = 0
    /\ poiCalls = 0
    /\ poiRadius = 0
    /\ fault = NoFault
    /\ response = Pending
    /\ npc = "ready"
    /\ feature \in RawFeatures
    /\ business = FormatRaise("")

Normalise ==
    /\ npc = "ready"
    /\ business' = format_business(feature)
    /\ npc' = "done"
    /\ UNCHANGED << feature, pipelineVars >>

NextNormalise == Normalise

SpecNormalise == InitNormalise /\ [][NextNormalise]_vars

(***************************************************************************)
(* Properties                                                              *)
(***************************************************************************)
Returned == pc \in {"Done", "Crashed"}

\* C1: an invocation whose location is missing or empty in the query string
\* and in the body (no body, or a body object without a usable location) ends
\* in 400 and has sent neither the geocoder nor the Overpass request.
C1_EmptyLocationRejected ==
    (Returned /\ NotLocation(location) /\ body \in {"none", "dict"})
        => /\ response.statusCode = 400
           /\ geoCalls = 0
           /\ poiCalls = 0

\* the radius C2 says is used: the supplied value when it is an integer in
\* [100, 5000] (given as an int or as the text of one), 1000 otherwise
IsIntegerValue(v) == v.k = "int" \/ (v.k = "str" /\ IntOfStr(v.s).exc = "")
IntegerValue(v) == IF v.k = "int" THEN v.n ELSE IntOfStr(v.s).n
ClaimedRadius(v) ==
    IF IsIntegerValue(v) /\ IntegerValue(v) >= 100 /\ IntegerValue(v) <= 5000
    THEN IntegerValue(v)
    ELSE 1000

\* C2: with a non-empty location, the radius in the Overpass query is the
\* supplied value when that is an integer in [100, 5000] and 1000 for every
\* other supplied value; a bad radius never yields 400; the radius queried is
\* always an integer in [100, 5000].
C2_RadiusPolicy ==
    /\ poiCalls > 0 => poiRadius = ClaimedRadius(radiusIn)
    /\ (Returned /\ ~NotLocation(location)) => response.statusCode # 400
    /\ poiCalls > 0 => (poiRadius >= 100 /\ poiRadius <= 5000)

\* a geocoder answer that is a transport error: the request failed, the
\* status is not 2xx, or the body is not a list of well-formed candidates
GeoTransportFailure(r) ==
    \/ r.net = "fail"
    \/ /\ r.net = "ok"
       /\ \/ r.status < 200 \/ r.status > 299
          \/ r.body.t \in {"garbage", "dict"}
          \/ /\ r.body.t = "list"
             /\ r.body.candidates # << >>
             /\ LET c == r.body.candidates[1]
                IN  \/ c.lat = << >> \/ c.lon = << >> \/ c.display_name = << >>
                    \/ ~c.lat[1].num \/ ~c.lon[1].num

\* C3: a transport error of the geocoder ends the invocation in 500 with the
\* cause kept, never in 404.
C3_GeocoderFailureIsInternalError ==
    (Returned /\ geoCalls = 1 /\ GeoTransportFailure(geoResponse))
        => /\ response.statusCode = 500
           /\ fault.exc # ""

EmptyCandidateList(r) ==
    r.net = "ok" /\ r.body.t = "list" /\ r.body.candidates = << >>

\* C4: when the geocoder answers an empty candidate list, the invocation ends
\* in 404 and the Overpass request is never sent.
C4_EmptyCandidatesNotFound ==
    EmptyCandidateList(geoResponse)
        => /\ pc = "Done"
           /\ response.statusCode = 404
           /\ poiCalls = 0

C4_Witness ==
    /\ EmptyCandidateList(geoResponse)
    /\ ~NotLocation(location)
    /\ geoCalls = 1
    /\ response.statusCode = 404

MalformedElement(e) == e.t # "dict" \/ e.tags.t = "null"

\* an Overpass answer that is a fault: the request failed, the status is not
\* 2xx, the content type is not JSON, or the body is not an object holding a
\* list of well-formed elements
PoiFault(r) ==
    \/ r.net = "fail"
    \/ /\ r.net = "ok"
       /\ \/ r.status < 200 \/ r.status > 299
          \/ r.ctype # "application/json"
          \/ r.body.t \in {"garbage", "jsonlist"}
          \/ r.body.elements.t = "none"
          \/ \E i \in DOMAIN r.body.elements.items :
                MalformedElement(r.body.elements.items[i])

\* C5: after a successful geocode, every fault of the Overpass service ends
\* the invocation in 200 with zero businesses.
C5_PoiFaultIsEmptySuccess ==
    (Returned /\ poiCalls = 1 /\ PoiFault(poiResponse))
        => /\ response.statusCode = 200
           /\ response.body.businesses.items = << >>

NameKey(x) == Lower(x.name)
Occurrences(s, x) == Cardinality({ i \in DOMAIN s : s[i] = x })
WithKey(s, k) == LET HasKey(x) == NameKey(x) = k IN SelectSeq(s, HasKey)

\* out holds exactly the entries of in, ascending by lower-cased name, entries
\* of equal lower-cased name in the order they have in `in`
IsStableSortByName(out, in) ==
    /\ Len(out) = Len(in)
    /\ \A i \in DOMAIN in : Occurrences(out, in[i]) = Occurrences(in, in[i])
    /\ \A i, j \in DOMAIN out : i < j => ~StrLess(NameKey(out[j]), NameKey(out[i]))
    /\ \A i \in DOMAIN in : WithKey(out, NameKey(in[i])) = WithKey(in, NameKey(in[i]))

\* C6: in every 200 response the businesses are the formatted elements, none
\* added, dropped or merged, ascending by name ignoring case, and entries
\* whose names are equal ignoring case keep the order Overpass returned them in.
C6_SortedStablePermutation ==
    response.statusCode = 200
        => IsStableSortByName(response.body.businesses.items, format_all(businesses).v)

\* a 200 response whose elements arrived out of order, with two distinct
\* entries tied on the lower-cased name and a pair that case-sensitive
\* comparison would order the other way
C6_Witness ==
    /\ response.statusCode = 200
    /\ LET in == format_all(businesses).v
       IN  /\ Len(in) = 3
           /\ \E i, j \in DOMAIN in :
                 i < j /\ StrLess(NameKey(in[j]), NameKey(in[i]))
           /\ \E i, j \in DOMAIN in :
                 i < j /\ NameKey(in[i]) = NameKey(in[j]) /\ in[i] # in[j]
           /\ \E i, j \in DOMAIN in :
                 StrLess(in[i].name, in[j].name) /\ StrLess(NameKey(in[j]), NameKey(in[i]))

\* the coordinate C7 says format_business gives: the centroid for a way, the
\* direct coordinate otherwise, null only when the element carries neither
ClaimedLat(f) ==
    IF f.type = "way"
    THEN IF f.center # << >> THEN << f.center[1].lat >> ELSE f.lat
    ELSE IF f.lat # << >> THEN f.lat
    ELSE IF f.center # << >> THEN << f.center[1].lat >> ELSE << >>
ClaimedLon(f) ==
    IF f.type = "way"
    THEN IF f.center # << >> THEN << f.center[1].lon >> ELSE f.lon
    ELSE IF f.lon # << >> THEN f.lon
    ELSE IF f.center # << >> THEN << f.center[1].lon >> ELSE << >>

\* C7: format_business gives a way its centroid coordinate and any other
\* element its direct coordinate; the coordinate is null only when the element
\* has neither.
C7_CoordinateResolution ==
    (npc = "done" /\ business.exc = "")
        => /\ business.v.lat = ClaimedLat(feature)
           /\ business.v.lon = ClaimedLon(feature)

\* C8: every business of a 200 response has a non-empty name.
C8_NameNeverEmpty ==
    response.statusCode = 200
        => \A i \in DOMAIN response.body.businesses.items :
              response.body.businesses.items[i].name # Str_Empty

\* C9: a fault raised by the query step after a successful geocode ends the
\* invocation in 500 instead of escaping the handler, and a 200 response
\* always carries a list of businesses, never null.
C9_QueryFaultIsInternalError ==
    /\ fault.stage = "query" => (pc = "Done" /\ response.statusCode = 500)
    /\ response.statusCode = 200 => response.body.businesses.t = "list"

C9_Witness ==
    /\ fault.stage = "query"
    /\ coords # << >>
    /\ poiCalls = 1
    /\ response.statusCode = 500

\* C10: an invocation sends at most one geocoder request and at most one
\* Overpass request; the Overpass request is sent only after the geocoder
\* returned a match; and the location has been validated before either.
C10_AtMostTwoOrderedRequests ==
    /\ geoCalls <= 1
    /\ poiCalls <= 1
    /\ poiCalls = 1 => (geoCalls = 1 /\ coords # << >> /\ geoResponse.net = "ok")
    /\ geoCalls >= 1 =>
          (~NotLocation(location) /\ pc \notin {"Start", "ValidateLocation"})

C10_Witness ==
    /\ geoCalls = 1
    /\ poiCalls = 1
    /\ pc = "Done"

====
